---- MODULE Spec2Model ----
(***************************************************************************)
(* A state-machine model of src/main.py: the Telegram concierge bot.       *)
(*                                                                         *)
(* A text is a sequence of tokens.  A token is either one character of an  *)
(* input (a message body, a first name, a completion's content) or one     *)
(* literal of the source, kept whole as a single token (emoji are written  *)
(* as :shortcodes:, the bullet as "-").  Concatenation is \o, str.strip()  *)
(* is Strip, and "contains verbatim" is Contains.                          *)
(*                                                                         *)
(* The steps of a handler coroutine are the stretches of code between two  *)
(* awaits: asyncio runs each of them without interleaving.                 *)
(***************************************************************************)
EXTENDS Naturals, Sequences, FiniteSets

(***************************************************************************)
(* Bounds of the model.                                                    *)
(***************************************************************************)
\* longest completion content (in characters) the completion API returns
MaxLen == 2
\* longest free-text message body (in characters)
MaxBody == 1
\* number of updates the dispatcher may process at the same time under
\* SpecConcurrent (Application.concurrent_updates)
NumSlots == 2

Slots == 1..NumSlots

(***************************************************************************)
(* Texts.                                                                  *)
(***************************************************************************)
\* the characters str.strip() removes
Whitespace == {" ", "\n", "\t"}

TextsOver(alphabet, n) == UNION {[1..k -> alphabet] : k \in 0..n}

RECURSIVE LStrip(_)
LStrip(t) == IF t # <<>> /\ Head(t) \in Whitespace THEN LStrip(Tail(t)) ELSE t

RECURSIVE RStrip(_)
RStrip(t) ==
    IF t # <<>> /\ t[Len(t)] \in Whitespace
    THEN RStrip(SubSeq(t, 1, Len(t) - 1))
    ELSE t

\* str.strip()
StripNothing(t) == t
Strip(t) == RStrip(LStrip(t))

\* needle in hay
Contains(hay, needle) ==
    \E i \in 0..Len(hay) :
        /\ i + Len(needle) <= Len(hay)
        /\ SubSeq(hay, i + 1, i + Len(needle)) = needle

(***************************************************************************)
(* Python values.                                                          *)
(***************************************************************************)
None == "None"

\* the values os.getenv can give for a secret: unset, set to "", set
EnvValues == {None, "", "secret"}

\* bool(v) is False
Falsy(v) == v \in {None, ""}

(***************************************************************************)
(* The literals of the source.                                             *)
(***************************************************************************)
SYSTEM_PROMPT == <<"You are a friendly, warm, and helpful AI concierge bot. Keep responses concise but heartfelt and engaging. Be supportive, encouraging, and personable in your interactions. Provide practical advice when asked and maintain a positive tone.">>

\* start: welcome_message
WelcomeMessage == <<":robot: Welcome! I'm your friendly AI concierge bot.\n\nHere's what I can help you with:\n- /help - Show all available commands\n- /love - Get today's love quote\n- /poetry - Receive a romantic quote\n- /song - Get a song suggestion\n- /advice - Daily helpful tip\n- /mood - Quick mood check-in\n\nYou can also just chat with me naturally!">>
\* help_command: help_text
HelpText == <<":sos: **Available Commands:**\n\n:star2: /start - Welcome message and intro\n:question: /help - Show this help message\n:two_hearts: /love - Today's love quote via AI\n:performing_arts: /poetry - Short romantic quote\n:musical_note: /song - Song recommendation\n:bulb: /advice - Daily helpful tip\n:blush: /mood - Simple mood check-in\n\n:speech_balloon: You can also send me any message and I'll respond as your friendly AI concierge!">>
\* mood_checkin: mood_message
MoodMessage == <<":blush: **Mood Check-in**\n\nHow are you feeling today?\n\nRemember:\n- It's okay to have ups and downs\n- Every day is a fresh start\n- You're doing better than you think!\n- Small steps lead to big changes\n\n:muscle: Tell me what's on your mind, I'm here to listen and help!">>

\* the prompts of the four generated commands
LovePrompt == <<"Generate a beautiful, inspiring love quote for today. Make it heartwarming, meaningful, and uplifting.">>
PoetryPrompt == <<"Create a short, beautiful romantic quote or line of poetry. Keep it elegant, touching, and memorable.">>
SongPrompt == <<"Suggest a great song (artist and title) with a brief reason why it's worth listening to. Make it uplifting, meaningful, or emotionally resonant.">>
AdvicePrompt == <<"Share a practical, positive daily life tip or advice. Make it actionable, encouraging, and genuinely helpful for personal growth.">>

\* get_openai_response: the reply when there is no client
UnavailableMessage == <<"Sorry, AI service is currently unavailable. Please try again later! :robot:">>
\* get_openai_response: the reply to an empty choice list
NoChoiceMessage == <<"I'm having trouble generating a response right now. Please try again! :robot:">>
\* get_openai_response: error_messages
error_messages ==
    << <<"Sorry, I'm having trouble connecting to my AI brain right now. Please try again later! :robot:">>,
       <<"Oops! My AI circuits are a bit tangled right now. Give me a moment and try again! :zap:">>,
       <<"My AI brain needs a quick reboot! Please try your request again in a moment. :arrows_counterclockwise:">> >>

\* error_handler: the reply
ErrorReply == <<":wrench: Oops! Something went wrong on my end. Please try again in a moment. If the issue persists, try using /help to see available commands! :robot:">>

\* the default of get_openai_response's max_tokens, and handle_message's
DefaultMaxTokens == 150
ChatMaxTokens == 200

(***************************************************************************)
(* The replies the handlers format.                                        *)
(***************************************************************************)
LoveQuoteUndecorated(quote) == quote
LoveQuoteReply(quote) ==
    <<":two_hearts: **Today's Love Quote:**\n\n">> \o quote
        \o <<"\n\n:sparkles: _Spread love wherever you go!_">>

PoetryQuoteReply(quote) ==
    <<":performing_arts: **Romantic Quote:**\n\n_">> \o quote
        \o <<"_\n\n:gift_heart: _For the romantic soul_">>

SongSuggestionReply(suggestion) ==
    <<":musical_note: **Song Suggestion:**\n\n">> \o suggestion
        \o <<"\n\n:notes: _Enjoy the music!_">>

DailyAdviceReply(advice) ==
    <<":bulb: **Daily Advice:**\n\n">> \o advice
        \o <<"\n\n:star2: _You've got this!_">>

HandleMessageReply(response) == <<":robot: ">> \o response

\* handle_message: user_name
UserName(first_name) == IF first_name = <<>> THEN <<"friend">> ELSE first_name

\* handle_message: prompt
HandleMessagePromptAnonymous(user_name, user_message) ==
    <<"As a friendly AI concierge, respond warmly to this message from ">>
        \o <<"friend">> \o <<": '">> \o user_message
        \o <<"'. Be helpful, encouraging, personable, and provide practical value when possible. If they're asking for help or advice, provide actionable suggestions. If they're sharing something, respond empathetically and engagingly.">>
HandleMessagePrompt(user_name, user_message) ==
    <<"As a friendly AI concierge, respond warmly to this message from ">>
        \o user_name \o <<": '">> \o user_message
        \o <<"'. Be helpful, encouraging, personable, and provide practical value when possible. If they're asking for help or advice, provide actionable suggestions. If they're sharing something, respond empathetically and engagingly.">>

(***************************************************************************)
(* Inputs: the updates the transport delivers and the outcomes of the      *)
(* completion call.                                                        *)
(***************************************************************************)
\* the field of the Update that holds the message: update.message is None
\* unless the kind is "message"; update.effective_message is the message of
\* any of the three kinds
Kinds == {"message", "edited_message", "channel_post"}

\* a text that starts with a bot command is <<the command>>
CommandTokens ==
    {"/start", "/help", "/love", "/poetry", "/song", "/advice", "/mood", "/unknown"}

\* message bodies: <<>> is a message without text (a photo, a sticker)
Bodies == TextsOver({"a", " "}, MaxBody)

\* effective_user.first_name
Names == {<<>>, <<"n">>}

Updates ==
    [kind : Kinds, text : Bodies \cup {<<c>> : c \in CommandTokens}, first_name : Names]

NoUpdate == [kind |-> "none", text |-> <<>>, first_name |-> <<>>]

\* choices[i].message.content: None, or a text
NoContent == [present |-> FALSE, text |-> <<>>]
Contents ==
    {NoContent} \cup {[present |-> TRUE, text |-> t] : t \in TextsOver({"x", " "}, MaxLen)}

\* the choices after the first one
FurtherChoices == {<<>>, << [present |-> TRUE, text |-> <<"z">>] >>}

\* str(e) of the exceptions the call raises: a timeout, a network error
ErrorTexts == {<<"Request timed out.">>, <<"Connection error.">>}

\* client.chat.completions.create raises (timeout, network error) or returns
\* a response with its choices
Outcomes ==
    {[kind |-> "raise", error |-> e, choices |-> <<>>] : e \in ErrorTexts}
        \cup {[kind |-> "return", error |-> <<>>, choices |-> <<>>]}
        \cup {[kind |-> "return", error |-> <<>>, choices |-> <<c>> \o f] :
                  c \in Contents, f \in FurtherChoices}

NoOutcome == [kind |-> "none", error |-> <<>>, choices |-> <<>>]

\* the workload of SpecConcurrent: a canned command, a generated one, a free
\* text and a command that no handler takes; a call that raises and one that
\* returns a completion
ConcurrentUpdates ==
    {[kind |-> "message", text |-> <<c>>, first_name |-> <<"n">>] :
        c \in {"/start", "/love", "/unknown"}}
        \cup {[kind |-> "message", text |-> <<"a">>, first_name |-> <<"n">>]}

ConcurrentOutcomes ==
    {[kind |-> "raise", error |-> <<"Request timed out.">>, choices |-> <<>>],
     [kind |-> "return", error |-> <<>>,
      choices |-> << [present |-> TRUE, text |-> <<"x">>] >>]}

(***************************************************************************)
(* State.                                                                  *)
(***************************************************************************)
VARIABLES
    env,            \* the process environment: BOT_TOKEN, OPENAI_API_KEY
    phase,          \* where the process is: module initialisation, main(), polling
    client,         \* the module-level client: "unset", None or "client"
    BOT_TOKEN,      \* the module-level BOT_TOKEN
    handlers,       \* application.handlers[0], in registration order
    error_handlers, \* application.error_handlers
    tasks,          \* for each slot, the update being processed and its coroutine
    concurrent_updates  \* Application.concurrent_updates: main() leaves it off

vars == <<env, phase, client, BOT_TOKEN, handlers, error_handlers, tasks, concurrent_updates>>

IdleTask ==
    [pc |-> "idle", upd |-> NoUpdate, handler |-> "", prompt |-> <<>>,
     max_tokens |-> 0, outcome |-> NoOutcome, response |-> <<>>, out |-> <<>>,
     sent |-> <<>>, calls |-> 0, raised |-> FALSE, failures |-> {}, logs |-> {}]

Init ==
    /\ env \in [BOT_TOKEN : EnvValues, OPENAI_API_KEY : EnvValues]
    /\ phase = "init_client"
    /\ client = "unset"
    /\ BOT_TOKEN = "unset"
    /\ handlers = <<>>
    /\ error_handlers = <<>>
    /\ tasks = [s \in Slots |-> IdleTask]
    /\ concurrent_updates = FALSE

\* the process started with an application that processes updates concurrently
InitConcurrent ==
    /\ env \in [BOT_TOKEN : EnvValues, OPENAI_API_KEY : EnvValues]
    /\ phase = "init_client"
    /\ client = "unset"
    /\ BOT_TOKEN = "unset"
    /\ handlers = <<>>
    /\ error_handlers = <<>>
    /\ tasks = [s \in Slots |-> IdleTask]
    /\ concurrent_updates = TRUE

(***************************************************************************)
(* Module initialisation (lines 20-40) and main().                         *)
(***************************************************************************)
\* OpenAI(api_key=os.getenv('OPENAI_API_KEY'), timeout=30.0) in its try: the
\* constructor raises without a key, and may raise with one
InitClient ==
    /\ phase = "init_client"
    /\ \E constructed \in BOOLEAN :
          client' = IF env.OPENAI_API_KEY = None \/ ~constructed THEN None ELSE "client"
    /\ phase' = "check_token"
    /\ UNCHANGED <<env, BOT_TOKEN, handlers, error_handlers, tasks, concurrent_updates>>

\* `not os.getenv(...)` / `not BOT_TOKEN`
NeverMissing(v) == FALSE
MissingSecret(v) == Falsy(v)

\* BOT_TOKEN = os.getenv('BOT_TOKEN'); if not BOT_TOKEN: raise ValueError
CheckBotToken ==
    /\ phase = "check_token"
    /\ BOT_TOKEN' = env.BOT_TOKEN
    /\ phase' = IF MissingSecret(env.BOT_TOKEN) THEN "fatal" ELSE "check_key"
    /\ UNCHANGED <<env, client, handlers, error_handlers, tasks, concurrent_updates>>

\* if not os.getenv('OPENAI_API_KEY'): raise ValueError
CheckApiKey ==
    /\ phase = "check_key"
    /\ phase' = IF MissingSecret(env.OPENAI_API_KEY) THEN "fatal" ELSE "main"
    /\ UNCHANGED <<env, client, BOT_TOKEN, handlers, error_handlers, tasks, concurrent_updates>>

\* main(): the add_handler calls, in order
WrongRegistrations ==
    << [type |-> "CommandHandler", command |-> "start", callback |-> "start"],
       [type |-> "CommandHandler", command |-> "help", callback |-> "help_command"],
       [type |-> "CommandHandler", command |-> "love", callback |-> "poetry_quote"],
       [type |-> "CommandHandler", command |-> "poetry", callback |-> "love_quote"],
       [type |-> "CommandHandler", command |-> "song", callback |-> "song_suggestion"],
       [type |-> "CommandHandler", command |-> "advice", callback |-> "daily_advice"],
       [type |-> "CommandHandler", command |-> "mood", callback |-> "mood_checkin"],
       [type |-> "MessageHandler", command |-> "", callback |-> "handle_message"] >>
Registrations ==
    << [type |-> "CommandHandler", command |-> "start", callback |-> "start"],
       [type |-> "CommandHandler", command |-> "help", callback |-> "help_command"],
       [type |-> "CommandHandler", command |-> "love", callback |-> "love_quote"],
       [type |-> "CommandHandler", command |-> "poetry", callback |-> "poetry_quote"],
       [type |-> "CommandHandler", command |-> "song", callback |-> "song_suggestion"],
       [type |-> "CommandHandler", command |-> "advice", callback |-> "daily_advice"],
       [type |-> "CommandHandler", command |-> "mood", callback |-> "mood_checkin"],
       [type |-> "MessageHandler", command |-> "", callback |-> "handle_message"] >>

\* main() up to application.build()
BuildApplication ==
    /\ phase = "main"
    /\ phase' = "register"
    /\ UNCHANGED <<env, client, BOT_TOKEN, handlers, error_handlers, tasks, concurrent_updates>>

\* application.add_handler(...): the next of the eight
AddHandler ==
    /\ phase = "register"
    /\ Len(handlers) < Len(Registrations)
    /\ handlers' = Append(handlers, Registrations[Len(handlers) + 1])
    /\ UNCHANGED <<env, phase, client, BOT_TOKEN, error_handlers, tasks, concurrent_updates>>

\* application.add_error_handler(error_handler)
AddErrorHandler ==
    /\ phase = "register"
    /\ Len(handlers) = Len(Registrations)
    /\ error_handlers' = Append(error_handlers, "error_handler")
    /\ phase' = "registered"
    /\ UNCHANGED <<env, client, BOT_TOKEN, handlers, tasks, concurrent_updates>>

\* application.run_polling(...)
RunPolling ==
    /\ phase = "registered"
    /\ phase' = "polling"
    /\ UNCHANGED <<env, client, BOT_TOKEN, handlers, error_handlers, tasks, concurrent_updates>>

(***************************************************************************)
(* The Router: the dispatcher's choice of a handler for an update.         *)
(***************************************************************************)
\* the command a text starts with, "" when it starts with none
CommandOf(text) ==
    IF text # <<>> /\ Head(text) \in CommandTokens
    THEN CASE Head(text) = "/start" -> "start"
           [] Head(text) = "/help" -> "help"
           [] Head(text) = "/love" -> "love"
           [] Head(text) = "/poetry" -> "poetry"
           [] Head(text) = "/song" -> "song"
           [] Head(text) = "/advice" -> "advice"
           [] Head(text) = "/mood" -> "mood"
           [] OTHER -> "unknown"
    ELSE ""

\* handler.check_update(update): a CommandHandler takes its command in a
\* message or an edited message; MessageHandler(filters.TEXT &
\* ~filters.COMMAND) takes the effective message of any kind that has a text
\* that starts with no command
CheckUpdate(h, u) ==
    IF h.type = "CommandHandler"
    THEN u.kind \in {"message", "edited_message"} /\ CommandOf(u.text) = h.command
    ELSE u.text # <<>> /\ CommandOf(u.text) = ""

\* the first registered handler that takes the update; "" when none does
FirstMatch(u) ==
    LET matching == {i \in 1..Len(handlers) : CheckUpdate(handlers[i], u)}
    IN  IF matching = {} THEN ""
        ELSE handlers[CHOOSE i \in matching : \A j \in matching : i <= j].callback

InFlight(s) == tasks[s].pc \notin {"idle", "done"}

(***************************************************************************)
(* The coroutines.  A task record is the coroutine's frame (prompt,        *)
(* max_tokens, outcome, response, out) and what was done so far for its    *)
(* update (handler, sent, calls, raised, failures, logs).  An action is a   *)
(* stretch of code between two awaits.                                     *)
(***************************************************************************)
\* the frame is dropped when the coroutine returns or raises
DropFrame(t) ==
    [t EXCEPT !.prompt = <<>>, !.max_tokens = 0, !.outcome = NoOutcome,
              !.response = <<>>, !.out = <<>>]

\* the coroutine returns
Return(t) == [DropFrame(t) EXCEPT !.pc = "done"]

\* isinstance(update, Update) and update.effective_message
NoEffectiveMessage(u) == FALSE
HasEffectiveMessage(u) == u.kind \in Kinds

\* error_handler(update, context) up to its await: it logs, and replies to
\* the effective message when there is one
ErrorHandler(t) ==
    LET l == [t EXCEPT !.logs = @ \cup {<<"Exception while handling an update:">>}]
    IN  IF HasEffectiveMessage(t.upd)
        THEN [l EXCEPT !.pc = "esend", !.out = ErrorReply]
        ELSE Return(l)

\* the handler raises: the dispatcher catches the exception and calls the
\* registered error handlers (with none registered it only logs)
Raise(t) ==
    LET e == [DropFrame(t) EXCEPT !.raised = TRUE]
    IN  IF error_handlers = <<>> THEN Return(e) ELSE ErrorHandler(e)

\* await update.message.reply_text(text): update.message is None unless the
\* update is a message, and None.reply_text raises AttributeError
ReplyText(t, text) ==
    IF t.upd.kind = "message"
    THEN [t EXCEPT !.pc = "send", !.out = text]
    ELSE Raise(t)

\* what each generated handler does with the string the Gateway returned
FormatReply(h, r) ==
    CASE h = "love_quote" -> LoveQuoteReply(r)
      [] h = "poetry_quote" -> PoetryQuoteReply(r)
      [] h = "song_suggestion" -> SongSuggestionReply(r)
      [] h = "daily_advice" -> DailyAdviceReply(r)
      [] h = "handle_message" -> HandleMessageReply(r)

\* a handler that formats the last response any handler got, kept in one
\* place for all of them, in place of its own
ResumeShared(t, r) ==
    LET held == {s \in Slots : tasks[s].response # <<>>}
        last == IF held = {} THEN r ELSE tasks[CHOOSE s \in held : TRUE].response
    IN  ReplyText([t EXCEPT !.response = last], FormatReply(t.handler, last))

\* get_openai_response returns r to the handler, which formats and sends it
Resume(t, r) == ReplyText([t EXCEPT !.response = r], FormatReply(t.handler, r))

\* quote = await get_openai_response(prompt, max_tokens): without a client it
\* returns at once, with one it awaits asyncio.to_thread(create, ...)
GetOpenaiResponse(t, prompt, max_tokens) ==
    LET f == [t EXCEPT !.prompt = prompt, !.max_tokens = max_tokens]
    IN  IF Falsy(client)
        THEN Resume(f, UnavailableMessage)
        ELSE [f EXCEPT !.pc = "api", !.calls = @ + 1]

Step(s, t) ==
    /\ tasks' = [tasks EXCEPT ![s] = t]
    /\ UNCHANGED <<env, phase, client, BOT_TOKEN, handlers, error_handlers, concurrent_updates>>

\* the dispatcher takes update u in slot s, the first free one, and the
\* Router selects callback h for it; with concurrent_updates off the
\* dispatcher processes one update to its end before it takes the next
Selects(s, u, h) ==
    /\ phase = "polling"
    /\ ~InFlight(s)
    /\ \A r \in Slots : r < s => InFlight(r)
    /\ concurrent_updates \/ \A r \in Slots : ~InFlight(r)
    /\ FirstMatch(u) = h

\* the task of a callback just called
Called(u, h) == [IdleTask EXCEPT !.upd = u, !.handler = h]

\* an update no handler takes is dropped
DropUpdate(s, u) == Selects(s, u, "") /\ Step(s, Return(Called(u, "")))

Start(s, u) ==
    Selects(s, u, "start") /\ Step(s, ReplyText(Called(u, "start"), WelcomeMessage))

HelpCommand(s, u) ==
    Selects(s, u, "help_command")
        /\ Step(s, ReplyText(Called(u, "help_command"), HelpText))

MoodCheckin(s, u) ==
    Selects(s, u, "mood_checkin")
        /\ Step(s, ReplyText(Called(u, "mood_checkin"), MoodMessage))

LoveQuote(s, u) ==
    Selects(s, u, "love_quote")
        /\ Step(s, GetOpenaiResponse(Called(u, "love_quote"), LovePrompt, DefaultMaxTokens))

PoetryQuote(s, u) ==
    Selects(s, u, "poetry_quote")
        /\ Step(s, GetOpenaiResponse(Called(u, "poetry_quote"), PoetryPrompt, DefaultMaxTokens))

SongSuggestion(s, u) ==
    Selects(s, u, "song_suggestion")
        /\ Step(s, GetOpenaiResponse(Called(u, "song_suggestion"), SongPrompt, DefaultMaxTokens))

DailyAdvice(s, u) ==
    Selects(s, u, "daily_advice")
        /\ Step(s, GetOpenaiResponse(Called(u, "daily_advice"), AdvicePrompt, DefaultMaxTokens))

\* handle_message: returns at once without update.message or without a text
HandleMessage(s, u) ==
    /\ Selects(s, u, "handle_message")
    /\ Step(s, IF u.kind # "message" \/ u.text = <<>>
               THEN Return(Called(u, "handle_message"))
               ELSE GetOpenaiResponse(Called(u, "handle_message"),
                        HandleMessagePrompt(UserName(u.first_name), u.text),
                        ChatMaxTokens))

(***************************************************************************)
(* The Completion Gateway after its await.                                 *)
(***************************************************************************)
Range(f) == {f[i] : i \in DOMAIN f}

\* the try block raises: the call raised, or the first choice has no
\* content and None.strip() raises AttributeError
GatewayRaises(o) ==
    \/ o.kind = "raise"
    \/ o.kind = "return" /\ Len(o.choices) > 0 /\ ~o.choices[1].present

\* str(e) of the exception the try block catches
ExceptionText(o) ==
    IF o.kind = "raise" THEN o.error
    ELSE <<"'NoneType' object has no attribute 'strip'">>

\* the strings get_openai_response can return for outcome o of the call;
\* random.choice is a choice among error_messages
ReturnsExceptionText(o) ==
    IF GatewayRaises(o) THEN {ExceptionText(o)}
    ELSE IF Len(o.choices) > 0 THEN {Strip(o.choices[1].text)}
    ELSE {NoChoiceMessage}
GatewayReturns(o) ==
    IF GatewayRaises(o) THEN Range(error_messages)
    ELSE IF Len(o.choices) > 0 THEN {Strip(o.choices[1].text)}
    ELSE {NoChoiceMessage}

\* a Gateway that calls the endpoint a second time after a call that raised
ApiReturnRetrying(s, o) ==
    /\ tasks[s].pc = "api"
    /\ IF GatewayRaises(o) /\ tasks[s].calls < 2
       THEN Step(s, [tasks[s] EXCEPT !.calls = @ + 1])
       ELSE \E r \in GatewayReturns(o) :
               Step(s, Resume([tasks[s] EXCEPT !.outcome = o], r))

\* the completion call of slot s ends with outcome o; get_openai_response
\* returns and the handler goes on to its reply_text
ApiReturn(s, o) ==
    /\ tasks[s].pc = "api"
    /\ \E r \in GatewayReturns(o) :
          Step(s, Resume([tasks[s] EXCEPT
                    !.outcome = o,
                    !.logs = IF GatewayRaises(o)
                             THEN @ \cup {<<"OpenAI API error: ">> \o ExceptionText(o)}
                             ELSE @], r))

(***************************************************************************)
(* Delivery.                                                               *)
(***************************************************************************)
\* the handler's reply_text ends: delivered, or it raises (network error,
\* Markdown the platform refuses)
ReplyDone(s) ==
    /\ tasks[s].pc = "send"
    /\ \E delivered \in BOOLEAN :
          LET t == tasks[s]
          IN  Step(s, IF delivered
                      THEN Return([t EXCEPT !.sent =
                              Append(@, [by |-> t.handler, text |-> t.out])])
                      ELSE Raise([t EXCEPT !.failures = @ \cup {"reply_text"}]))

\* the error handler's reply_text ends: delivered, or it raises and the
\* dispatcher logs that and goes on
ErrorReplyDone(s) ==
    /\ tasks[s].pc = "esend"
    /\ \E delivered \in BOOLEAN :
          LET t == tasks[s]
          IN  Step(s, IF delivered
                      THEN Return([t EXCEPT !.sent =
                              Append(@, [by |-> "error_handler", text |-> t.out])])
                      ELSE Return([t EXCEPT !.failures = @ \cup {"error_handler"}]))

(***************************************************************************)
(* The specifications.                                                     *)
(***************************************************************************)
Startup ==
    \/ InitClient
    \/ CheckBotToken
    \/ CheckApiKey
    \/ BuildApplication
    \/ AddHandler
    \/ AddErrorHandler
    \/ RunPolling

Handlers(s, u) ==
    \/ DropUpdate(s, u)
    \/ Start(s, u)
    \/ HelpCommand(s, u)
    \/ LoveQuote(s, u)
    \/ PoetryQuote(s, u)
    \/ SongSuggestion(s, u)
    \/ DailyAdvice(s, u)
    \/ MoodCheckin(s, u)
    \/ HandleMessage(s, u)

Next ==
    \/ Startup
    \/ \E s \in Slots, u \in Updates : Handlers(s, u)
    \/ \E s \in Slots, o \in Outcomes : ApiReturn(s, o)
    \/ \E s \in Slots : ReplyDone(s)
    \/ \E s \in Slots : ErrorReplyDone(s)

\* the application as main() builds it
Spec == Init /\ [][Next]_vars

\* the handlers of the concurrent workload
ConcurrentHandlers(s, u) ==
    \/ DropUpdate(s, u)
    \/ Start(s, u)
    \/ LoveQuote(s, u)
    \/ HandleMessage(s, u)

NextConcurrent ==
    \/ Startup
    \/ \E s \in Slots, u \in ConcurrentUpdates : ConcurrentHandlers(s, u)
    \/ \E s \in Slots, o \in ConcurrentOutcomes : ApiReturn(s, o)
    \/ \E s \in Slots : ReplyDone(s)
    \/ \E s \in Slots : ErrorReplyDone(s)

\* the same code under a dispatcher that processes updates concurrently
SpecConcurrent == InitConcurrent /\ [][NextConcurrent]_vars

(***************************************************************************)
(* Properties.                                                             *)
(***************************************************************************)
\* the pre-written fallback and apology messages of get_openai_response
FallbackMessages == Range(error_messages) \cup {NoChoiceMessage, UnavailableMessage}

\* the completion call failed: it raised, it returned no choice, or its first
\* choice has no content
CallFailed(o) ==
    \/ o.kind = "raise"
    \/ o.kind = "return" /\ o.choices = <<>>
    \/ o.kind = "return" /\ o.choices # <<>> /\ ~o.choices[1].present

\* the completion call returned a well-formed completion
WellFormed(o) == o.kind = "return" /\ o.choices # <<>> /\ o.choices[1].present

\* r is t without its leading and trailing whitespace
IsTrimOf(r, t) ==
    /\ r # <<>> => r[1] \notin Whitespace /\ r[Len(r)] \notin Whitespace
    /\ \E i \in 0..Len(t) :
          /\ i + Len(r) <= Len(t)
          /\ SubSeq(t, i + 1, i + Len(r)) = r
          /\ \A k \in 1..Len(t) : (k <= i \/ k > i + Len(r)) => t[k] \in Whitespace

\* the handler of slot s has got the Gateway's answer to a call that ended
Answered(s) == tasks[s].pc = "send" /\ tasks[s].outcome.kind # "none"

\* C1: whenever the completion call fails (it raises, it returns an empty
\* choice list, or its first choice has no content), get_openai_response
\* returns a non-empty string of the fixed set of fallback messages, never the
\* exception's text, and the handler goes on with it to its reply
C1_FailedCallGivesFallback ==
    \A s \in Slots :
        Answered(s) /\ CallFailed(tasks[s].outcome) =>
            /\ tasks[s].response \in FallbackMessages
            /\ tasks[s].response # <<>>
            /\ tasks[s].response # ExceptionText(tasks[s].outcome)
            /\ ~tasks[s].raised
            /\ tasks[s].out = FormatReply(tasks[s].handler, tasks[s].response)

\* a first choice without content was answered with one of error_messages
C1_Witness ==
    \E s \in Slots :
        /\ Answered(s)
        /\ tasks[s].outcome.kind = "return"
        /\ tasks[s].outcome.choices # <<>>
        /\ ~tasks[s].outcome.choices[1].present
        /\ tasks[s].response = error_messages[2]

\* C2: whenever the completion call returns a well-formed completion,
\* get_openai_response returns the content of the first choice without its
\* leading and trailing whitespace, whatever the further choices
C2_WellFormedGivesTrimmedFirstChoice ==
    \A s \in Slots :
        Answered(s) /\ WellFormed(tasks[s].outcome) =>
            IsTrimOf(tasks[s].response, tasks[s].outcome.choices[1].text)

\* a first choice " x" followed by a second choice was answered with "x"
C2_Witness ==
    \E s \in Slots :
        /\ Answered(s)
        /\ Len(tasks[s].outcome.choices) = 2
        /\ tasks[s].outcome.choices[1] = [present |-> TRUE, text |-> <<" ", "x">>]
        /\ tasks[s].response = <<"x">>

\* the secret is absent from the environment
Absent(v) == v = None

\* C3: with the bot token absent, the API key absent or both, startup ends in
\* the fatal configuration error before any handler is registered and before
\* any update is processed; the bot polls only with both secrets present
C3_MissingSecretIsFatal ==
    /\ Absent(env.BOT_TOKEN) \/ Absent(env.OPENAI_API_KEY) =>
          /\ phase \in {"init_client", "check_token", "check_key", "fatal"}
          /\ phase \in {"init_client", "check_token", "check_key"} => ENABLED Startup
          /\ handlers = <<>>
          /\ error_handlers = <<>>
          /\ \A s \in Slots : tasks[s] = IdleTask
    /\ phase = "polling" => ~Absent(env.BOT_TOKEN) /\ ~Absent(env.OPENAI_API_KEY)

\* startup with the token present and the API key absent has ended fatally
C3_Witness ==
    /\ phase = "fatal"
    /\ env.BOT_TOKEN = "secret"
    /\ Absent(env.OPENAI_API_KEY)
    /\ handlers = <<>>

\* the golden values: each command keyword's handler and static template
Keywords == {"/start", "/help", "/love", "/poetry", "/song", "/advice", "/mood"}

GoldenHandler(k) ==
    CASE k = "/start" -> "start"
      [] k = "/help" -> "help_command"
      [] k = "/love" -> "love_quote"
      [] k = "/poetry" -> "poetry_quote"
      [] k = "/song" -> "song_suggestion"
      [] k = "/advice" -> "daily_advice"
      [] k = "/mood" -> "mood_checkin"

GoldenTemplate(k) ==
    CASE k = "/start" -> WelcomeMessage
      [] k = "/help" -> HelpText
      [] k = "/love" -> LovePrompt
      [] k = "/poetry" -> PoetryPrompt
      [] k = "/song" -> SongPrompt
      [] k = "/advice" -> AdvicePrompt
      [] k = "/mood" -> MoodMessage

\* the handler the golden values give for update u, "" when it has none
GoldenHandlerOf(u) ==
    IF u.text # <<>> /\ Head(u.text) \in Keywords
    THEN IF u.kind \in {"message", "edited_message"} THEN GoldenHandler(Head(u.text)) ELSE ""
    ELSE IF u.text # <<>> /\ Head(u.text) \notin CommandTokens THEN "handle_message"
    ELSE ""

\* the keywords whose template is the reply itself
Canned == {"/start", "/help", "/mood"}

\* slot s holds a command update that the dispatcher has taken
CommandTask(s, k) ==
    /\ tasks[s].pc # "idle"
    /\ tasks[s].upd.kind \in {"message", "edited_message"}
    /\ tasks[s].upd.text = <<k>>

\* C4: for every defined command keyword the Router calls the handler
\* registered for it, and that handler uses exactly the keyword's static
\* template (a canned command as its reply, a generated one as its prompt); no
\* two keywords share a template
C4_KeywordGivesItsHandlerAndTemplate ==
    /\ \A k1, k2 \in Keywords : k1 # k2 => GoldenTemplate(k1) # GoldenTemplate(k2)
    /\ \A s \in Slots, k \in Keywords :
          CommandTask(s, k) =>
              /\ tasks[s].handler = GoldenHandler(k)
              /\ tasks[s].pc \in {"api", "send"} =>
                    IF k \in Canned
                    THEN tasks[s].out = GoldenTemplate(k) /\ tasks[s].prompt = <<>>
                    ELSE tasks[s].prompt = GoldenTemplate(k)
              /\ \A i \in 1..Len(tasks[s].sent) :
                    tasks[s].sent[i].by = tasks[s].handler /\ k \in Canned =>
                        tasks[s].sent[i].text = GoldenTemplate(k)

\* /poetry is waiting for the completion of the poetry prompt
C4_Witness ==
    \E s \in Slots :
        /\ CommandTask(s, "/poetry")
        /\ tasks[s].handler = "poetry_quote"
        /\ tasks[s].pc = "api"
        /\ tasks[s].prompt = PoetryPrompt

\* C5: for every free-text message the prompt handle_message passes to the
\* Gateway contains the sender's first name and the message body verbatim
C5_PromptHoldsNameAndBody ==
    \A s \in Slots :
        tasks[s].handler = "handle_message" /\ tasks[s].pc \in {"api", "send"} =>
            /\ Contains(tasks[s].prompt, tasks[s].upd.text)
            /\ Contains(tasks[s].prompt, tasks[s].upd.first_name)
            /\ tasks[s].max_tokens = ChatMaxTokens

\* the message "a" of sender "n" is waiting for its completion
C5_Witness ==
    \E s \in Slots :
        /\ tasks[s].handler = "handle_message"
        /\ tasks[s].pc = "api"
        /\ tasks[s].upd.text = <<"a">>
        /\ tasks[s].upd.first_name = <<"n">>

\* the love-quote decoration around the text q
LoveDecoration(q) ==
    <<":two_hearts: **Today's Love Quote:**\n\n">> \o q
        \o <<"\n\n:sparkles: _Spread love wherever you go!_">>

\* the strings the Gateway can return at all
GatewayStrings ==
    FallbackMessages \cup {Strip(c.text) : c \in Contents \ {NoContent}}

C7_AtMostOneCall ==
    \A s \in Slots :
        /\ tasks[s].calls <= 1
        /\ tasks[s].pc = "api" => tasks[s].calls = 1 /\ tasks[s].outcome.kind = "none"
        /\ Answered(s) /\ CallFailed(tasks[s].outcome) =>
              tasks[s].calls = 1 /\ tasks[s].response \in FallbackMessages

\* a call that raised was answered after one call
C7_Witness ==
    \E s \in Slots :
        /\ Answered(s)
        /\ tasks[s].outcome.kind = "raise"
        /\ tasks[s].calls = 1

\* error_handler has logged the exception of slot s
Logged(s) == <<"Exception while handling an update:">> \in tasks[s].logs

\* the generic reply has been delivered for the update of slot s
GenericReplyDelivered(s) ==
    \E i \in 1..Len(tasks[s].sent) :
        tasks[s].sent[i] = [by |-> "error_handler", text |-> ErrorReply]

ExpectedReply(u, r) ==
    IF u.text = <<"/start">> THEN WelcomeMessage
    ELSE IF u.text = <<"/love">> THEN LoveDecoration(r)
    ELSE <<":robot: ">> \o r

\* the strings the Gateway may return for outcome o of an update's own call
\* (no outcome: there was no client and no call)
ExpectedResponses(o) ==
    IF o.kind = "none" THEN {UnavailableMessage}
    ELSE IF o.kind = "raise" THEN Range(error_messages)
    ELSE IF o.choices = <<>> THEN {NoChoiceMessage}
    ELSE IF ~o.choices[1].present THEN Range(error_messages)
    ELSE {r \in GatewayStrings : IsTrimOf(r, o.choices[1].text)}

\* what processing update u alone, to its end, can deliver
RepliesAlone(u) ==
    IF CommandOf(u.text) = "unknown" THEN {<<>>}
    ELSE LET own == {[by |-> GoldenHandlerOf(u), text |-> ExpectedReply(u, r)] :
                        r \in UNION {ExpectedResponses(o) :
                                        o \in IF client = None THEN {NoOutcome}
                                              ELSE ConcurrentOutcomes}}
         IN  {<<>>, << [by |-> "error_handler", text |-> ErrorReply] >>}
                 \cup {<<e>> : e \in own}

\* the replies of every task depend on its own update and its own call only
C9_OwnReplies ==
    \A s \in Slots :
        /\ tasks[s].pc = "send" =>
              /\ tasks[s].out = ExpectedReply(tasks[s].upd, tasks[s].response)
              /\ IF tasks[s].upd.text = <<"/start">>
                 THEN tasks[s].response = <<>> /\ tasks[s].calls = 0
                 ELSE /\ tasks[s].response \in ExpectedResponses(tasks[s].outcome)
                      /\ tasks[s].outcome.kind = "none" <=> client = None
        /\ tasks[s].pc = "esend" => tasks[s].out = ErrorReply
        /\ tasks[s].pc = "done" => tasks[s].sent \in RepliesAlone(tasks[s].upd)
        /\ tasks[s].pc # "idle" => tasks[s].handler = GoldenHandlerOf(tasks[s].upd)
        /\ phase = "polling" => handlers = Registrations

\* a step changes the task of one slot only, and after startup it changes
\* neither the registered handlers nor the client
C9_Frame ==
    /\ \A s, r \in Slots : s # r /\ tasks'[s] # tasks[s] => tasks'[r] = tasks[r]
    /\ phase = "polling" =>
          /\ handlers' = handlers
          /\ error_handlers' = error_handlers
          /\ client' = client
          /\ BOT_TOKEN' = BOT_TOKEN

C10_ExactlyOneReply ==
    \A s \in Slots :
        tasks[s].pc = "done" =>
            LET u == tasks[s].upd
            IN  /\ /\ u.kind = "message"
                   /\ u.text # <<>>
                   /\ CommandOf(u.text) # "unknown"
                   /\ tasks[s].failures = {}
                   => Len(tasks[s].sent) = 1
                /\ u.kind # "message" \/ u.text = <<>> =>
                      /\ tasks[s].calls = 0
                      /\ tasks[s].prompt = <<>>
                      /\ tasks[s].sent = <<>>
                /\ u.text \in {<<k>> : k \in Canned} => tasks[s].calls = 0

====
